---- MODULE Spec2Model ----
(***************************************************************************)
(* Recipe generator: the page component (src/app/page.tsx) with its React  *)
(* state and handlers, and the POST route of /api/generate-recipe          *)
(* (src/unnamed/part_000).                                                 *)
(*                                                                         *)
(* Ingredient names and typed text are sequences of one-character strings  *)
(* (so that trim is computed); messages are strings.                       *)
(***************************************************************************)
EXTENDS Integers, Sequences, FiniteSets, TLC

\* ------------------------------------------------------------------ bounds
MaxBasket == 2        \* basket entries the user piles up
MaxAdds == 1          \* catalog additions
MaxRequests == 2      \* generation requests sent in one behaviour
MaxTicks == 1         \* milliseconds the clock advances
MaxItems == 2
MaxCatalogAdds == 2         \* entries of an ingredients array sent to the route by a foreign client

\* ------------------------------------------------------------- null, text
NULL == "null"

RECURSIVE SeqsUpTo(_, _)
SeqsUpTo(S, n) ==
  IF n = 0 THEN {<<>>}
  ELSE LET shorter == SeqsUpTo(S, n - 1)
       IN  shorter \cup {Append(s, c) : s \in shorter, c \in S}

IsWhitespace(c) == c = " "

\* String.prototype.trim: leading and trailing whitespace removed
RECURSIVE trimStart(_)
trimStart(s) ==
  IF s = <<>> THEN <<>>
  ELSE IF IsWhitespace(Head(s)) THEN trimStart(Tail(s)) ELSE s

RECURSIVE trimEnd(_)
trimEnd(s) ==
  IF s = <<>> THEN <<>>
  ELSE IF IsWhitespace(s[Len(s)]) THEN trimEnd(SubSeq(s, 1, Len(s) - 1)) ELSE s

trim(s) == trimEnd(trimStart(s))

\* ----------------------------------------------------- initial static data
StartTime == 10000000   \* Date.now() when the module is loaded, in ms

Ingredient(i, n) == [id |-> i, name |-> n]

INITIAL_INGREDIENTS ==
  << Ingredient(1, <<"C","h","i","c","k","e","n">>),
     Ingredient(2, <<"R","i","c","e">>),
     Ingredient(3, <<"T","o","m","a","t","o","e","s">>),
     Ingredient(4, <<"O","n","i","o","n","s">>),
     Ingredient(5, <<"G","a","r","l","i","c">>),
     Ingredient(6, <<"B","e","l","l"," ","P","e","p","p","e","r","s">>),
     Ingredient(7, <<"O","l","i","v","e"," ","O","i","l">>),
     Ingredient(8, <<"P","a","s","t","a">>),
     Ingredient(9, <<"E","g","g","s">>),
     Ingredient(10, <<"M","i","l","k">>),
     Ingredient(11, <<"C","h","e","e","s","e">>),
     Ingredient(12, <<"B","u","t","t","e","r">>) >>

INITIAL_RECIPE_HISTORY ==
  << [ id |-> <<"hist_", 1>>,
       ingredientsUsed |-> <<INITIAL_INGREDIENTS[1], INITIAL_INGREDIENTS[2]>>,
       recipeText |-> "A simple recipe for Chicken & Rice",
       generatedAt |-> StartTime - 3600000 * 2 ] >>

\* ------------------------------------------- the route /api/generate-recipe
\* A request body as request.json() meets it: text that does not parse, the
\* JSON value null, a JSON value without properties of interest (a number, a
\* string, an array), or an object whose "ingredients" member is a value.
Value(t, items) == [t |-> t, items |-> items]
Item(t, hasName, name) == [t |-> t, hasName |-> hasName, name |-> name]
Body(kind, ingredients) == [kind |-> kind, ingredients |-> ingredients]

Undefined == Value("undefined", <<>>)

\* JSON.stringify({ ingredients: basket }) as the route parses it back
RequestBody(b) ==
  Body("object", Value("array", [i \in 1..Len(b) |-> Item("object", TRUE, b[i].name)]))

\* values that can be thrown / caught
Thrown(shape, message) == [shape |-> shape, message |-> message]
NoThrow == Thrown("none", "")

\* what model.generateContent does: throws, or returns a result whose
\* response may be absent; text() is the extracted text
NoRatings == [present |-> FALSE, list |-> <<>>]
Ratings(l) == [present |-> TRUE, list |-> l]
ProviderThrows(e) ==
  [kind |-> "throws", thrown |-> e, hasResponse |-> FALSE, text |-> "",
   finishReason |-> NULL, safetyRatings |-> NoRatings]
ProviderResult(hasResponse, text, finishReason, safetyRatings) ==
  [kind |-> "result", thrown |-> NoThrow, hasResponse |-> hasResponse, text |-> text,
   finishReason |-> finishReason, safetyRatings |-> safetyRatings]

\* JSON.stringify of a safetyRatings array
RECURSIVE StringifyRest(_)
StringifyRest(l) ==
  IF l = <<>> THEN ""
  ELSE "," \o "{\"category\":\"" \o Head(l).category \o "\",\"probability\":\""
           \o Head(l).probability \o "\"}" \o StringifyRest(Tail(l))

JSONstringify(l) ==
  IF l = <<>> THEN "[]"
  ELSE "[" \o "{\"category\":\"" \o Head(l).category \o "\",\"probability\":\""
           \o Head(l).probability \o "\"}" \o StringifyRest(Tail(l)) \o "]"

\* NextResponse.json(...), with what the handler did on the way
Response(status, error, recipeText, readBody, builtPrompt, calledProvider) ==
  [status |-> status, error |-> error, recipeText |-> recipeText,
   readBody |-> readBody, builtPrompt |-> builtPrompt, calledProvider |-> calledProvider]

\* the catch block letting through what is neither an Error nor a string:
\* status 0 stands for no response, the exception leaving POST
POSTcatch_rethrowsUnknown(e, builtPrompt, calledProvider) ==
  IF e.shape = "Error" \/ e.shape = "string"
  THEN Response(500, "Failed to generate recipe. " \o e.message, NULL,
                TRUE, builtPrompt, calledProvider)
  ELSE Response(0, NULL, NULL, TRUE, builtPrompt, calledProvider)

\* the catch block of POST
POSTcatch(e, builtPrompt, calledProvider) ==
  LET errorMessage == IF e.shape = "Error" THEN e.message
                      ELSE IF e.shape = "string" THEN e.message
                      ELSE "Unknown error"
  IN  Response(500, "Failed to generate recipe. " \o errorMessage, NULL,
               TRUE, builtPrompt, calledProvider)

\* the branch testing for any finish reason before it tests for SAFETY
EmptyTextResponse_anyReasonFirst(r) ==
  LET finishReason == r.finishReason
      reasonInfo == IF finishReason # NULL
                    THEN " (Finish Reason: " \o finishReason \o ")" ELSE ""
      safetyInfo == IF r.safetyRatings.present
                    THEN " (Safety Ratings: " \o JSONstringify(r.safetyRatings.list) \o ")"
                    ELSE ""
      errorMessage == IF finishReason # NULL
                      THEN "Failed to generate recipe. " \o reasonInfo
                      ELSE IF finishReason = "SAFETY"
                      THEN "Failed to generate recipe due to safety settings."
                      ELSE "Failed to generate recipe. The AI response was empty or blocked."
  IN  Response(500, errorMessage \o safetyInfo, NULL, TRUE, TRUE, TRUE)

\* the branch taking the presence of safety ratings for a block
EmptyTextResponse_ratingsMeanBlocked(r) ==
  LET finishReason == r.finishReason
      reasonInfo == IF finishReason # NULL
                    THEN " (Finish Reason: " \o finishReason \o ")" ELSE ""
      safetyInfo == IF r.safetyRatings.present
                    THEN " (Safety Ratings: " \o JSONstringify(r.safetyRatings.list) \o ")"
                    ELSE ""
      errorMessage == IF finishReason = "SAFETY" \/ r.safetyRatings.present
                      THEN "Failed to generate recipe due to safety settings."
                      ELSE IF finishReason # NULL
                      THEN "Failed to generate recipe. " \o reasonInfo
                      ELSE "Failed to generate recipe. The AI response was empty or blocked."
  IN  Response(500, errorMessage \o safetyInfo, NULL, TRUE, TRUE, TRUE)

\* the body of the branch  if (!response.text())
EmptyTextResponse(r) ==
  LET finishReason == r.finishReason
      reasonInfo == IF finishReason # NULL
                    THEN " (Finish Reason: " \o finishReason \o ")" ELSE ""
      safetyInfo == IF r.safetyRatings.present
                    THEN " (Safety Ratings: " \o JSONstringify(r.safetyRatings.list) \o ")"
                    ELSE ""
      errorMessage == IF finishReason = "SAFETY"
                      THEN "Failed to generate recipe due to safety settings."
                      ELSE IF finishReason # NULL
                      THEN "Failed to generate recipe. " \o reasonInfo
                      ELSE "Failed to generate recipe. The AI response was empty or blocked."
  IN  Response(500, errorMessage \o safetyInfo, NULL, TRUE, TRUE, TRUE)

SyntaxError == Thrown("Error", "Unexpected token < in JSON at position 0")
DestructureNull == Thrown("Error", "Cannot destructure property 'ingredients' of null")
ReadNameOfNull == Thrown("Error", "Cannot read properties of null (reading 'name')")

\* !ingredients || !Array.isArray(ingredients) || ingredients.length === 0
InvalidIngredients(v) == v.t # "array" \/ Len(v.items) = 0

\* Array.prototype.join
RECURSIVE join(_, _)
join(texts, separator) ==
  IF texts = <<>> THEN <<>>
  ELSE IF Len(texts) = 1 THEN texts[1]
  ELSE texts[1] \o separator \o join(Tail(texts), separator)

\* ingredients.map(ing => ing.name), as join reads it: the name that is
\* undefined is the empty text
mapName(ingredients) ==
  [ i \in 1..Len(ingredients) |->
      IF ingredients[i].hasName THEN ingredients[i].name ELSE <<>> ]

\* the names joined after dropping those that came before in the list
ingredientNames_distinct(ingredients) ==
  LET n == mapName(ingredients)
      firsts == { k \in 1..Len(n) : \A j \in 1..(k - 1) : n[j] # n[k] }
      nth(i) == CHOOSE k \in firsts : Cardinality({ m \in firsts : m <= k }) = i
  IN  join([ i \in 1..Cardinality(firsts) |-> n[nth(i)] ], <<",", " ">>)

ingredientNames(ingredients) == join(mapName(ingredients), <<",", " ">>)

\* the template literal of the prompt up to ${ingredientNames}
PromptHead ==
  << "\n"," "," "," "," "," "," ","Y","o","u"," ","a","r","e"," ","a"," ","h",
     "e","l","p","f","u","l"," ","r","e","c","i","p","e"," ","a","s","s","i",
     "s","t","a","n","t",".","\n"," "," "," "," "," "," ","G","e","n","e","r",
     "a","t","e"," ","a"," ","s","i","m","p","l","e"," ","r","e","c","i","p",
     "e"," ","u","s","i","n","g"," ","O","N","L","Y"," ","t","h","e"," ","f",
     "o","l","l","o","w","i","n","g"," ","i","n","g","r","e","d","i","e","n",
     "t","s",":"," " >>

\* and after it
PromptTail ==
  << ".","\n"," "," "," "," "," "," ","P","r","o","v","i","d","e"," ","a"," ",
     "t","i","t","l","e"," ","f","o","r"," ","t","h","e"," ","r","e","c","i",
     "p","e",","," ","a"," ","l","i","s","t"," ","o","f"," ","t","h","e"," ",
     "i","n","g","r","e","d","i","e","n","t","s"," ","p","r","o","v","i","d",
     "e","d",","," ","a","n","d"," ","s","t","e","p","-","b","y","-","s","t",
     "e","p"," ","i","n","s","t","r","u","c","t","i","o","n","s",".","\n"," ",
     " "," "," "," "," ","K","e","e","p"," ","t","h","e"," ","i","n","s","t",
     "r","u","c","t","i","o","n","s"," ","c","o","n","c","i","s","e"," ","a",
     "n","d"," ","e","a","s","y"," ","t","o"," ","f","o","l","l","o","w",".",
     "\n"," "," "," "," "," "," ","I","f"," ","t","h","e"," ","i","n","g","r",
     "e","d","i","e","n","t","s"," ","d","o","n","'","t"," ","s","e","e","m",
     " ","s","u","f","f","i","c","i","e","n","t"," ","f","o","r"," ","a"," ",
     "m","e","a","n","i","n","g","f","u","l"," ","r","e","c","i","p","e",",",
     " ","s","u","g","g","e","s","t"," ","a","d","d","i","n","g"," ","1","-",
     "2"," ","c","o","m","m","o","n"," ","p","a","n","t","r","y"," ","s","t",
     "a","p","l","e","s"," ","(","l","i","k","e"," ","s","a","l","t",","," ",
     "p","e","p","p","e","r",","," ","o","i","l",","," ","w","a","t","e","r",
     ")"," ","i","f"," ","n","e","c","e","s","s","a","r","y",","," ","b","u",
     "t"," ","p","r","i","o","r","i","t","i","z","e"," ","u","s","i","n","g",
     " ","o","n","l","y"," ","t","h","e"," ","p","r","o","v","i","d","e","d",
     " ","i","n","g","r","e","d","i","e","n","t","s",".","\n"," "," "," "," ",
     " "," ","F","o","r","m","a","t"," ","t","h","e"," ","o","u","t","p","u",
     "t"," ","c","l","e","a","r","l","y","."," ","E","x","a","m","p","l","e",
     ":","\n","\n"," "," "," "," "," "," ","*","*","R","e","c","i","p","e"," ",
     "T","i","t","l","e","*","*","\n","\n"," "," "," "," "," "," ","*","*","I",
     "n","g","r","e","d","i","e","n","t","s",":","*","*","\n"," "," "," "," ",
     " "," ","*"," ","I","n","g","r","e","d","i","e","n","t"," ","1","\n"," ",
     " "," "," "," "," ","*"," ","I","n","g","r","e","d","i","e","n","t"," ",
     "2","\n"," "," "," "," "," "," ","*"," ",".",".",".","\n","\n"," "," "," ",
     " "," "," ","*","*","I","n","s","t","r","u","c","t","i","o","n","s",":",
     "*","*","\n"," "," "," "," "," "," ","1","."," ","S","t","e","p"," ","1",
     ".",".",".","\n"," "," "," "," "," "," ","2","."," ","S","t","e","p"," ",
     "2",".",".",".","\n"," "," "," "," "," "," ","3","."," ","S","t","e","p",
     " ","3",".",".",".","\n"," "," "," "," " >>

\* const prompt = `...${ingredientNames}...`
prompt(ingredients) == PromptHead \o ingredientNames(ingredients) \o PromptTail

ConfiguredPOST(body, provider) ==
  IF body.kind = "unparsable" THEN POSTcatch(SyntaxError, FALSE, FALSE)
  ELSE IF body.kind = "null" THEN POSTcatch(DestructureNull, FALSE, FALSE)
  ELSE LET ingredients == IF body.kind = "object" THEN body.ingredients ELSE Undefined
       IN  IF InvalidIngredients(ingredients)
           THEN Response(400, "Missing or invalid ingredients list", NULL, TRUE, FALSE, FALSE)
           ELSE IF \E i \in 1..Len(ingredients.items) : ingredients.items[i].t = "null"
           THEN POSTcatch(ReadNameOfNull, FALSE, FALSE)
           ELSE IF provider.kind = "throws" THEN POSTcatch(provider.thrown, TRUE, TRUE)
           ELSE IF ~provider.hasResponse
           THEN Response(500, "Failed to generate recipe. No response object from AI.",
                         NULL, TRUE, TRUE, TRUE)
           ELSE IF provider.text = "" THEN EmptyTextResponse(provider)
           ELSE Response(200, NULL, provider.text, TRUE, TRUE, TRUE)

\* POST looking at the key only when it is about to call the provider
POST_checksKeyLate(apiKey, body, provider) ==
  LET configured == ConfiguredPOST(body, provider)
  IN  IF configured.calledProvider /\ apiKey = ""
      THEN Response(500, "API key not configured", NULL, FALSE, FALSE, FALSE)
      ELSE configured

\* export async function POST(request), API_KEY being the module constant
POST(apiKey, body, provider) ==
  IF apiKey = ""
  THEN Response(500, "API key not configured", NULL, FALSE, FALSE, FALSE)
  ELSE ConfiguredPOST(body, provider)

\* the provider behaviours and request bodies the model enumerates
SomeRatings == <<[category |-> "HARM_CATEGORY_HARASSMENT", probability |-> "NEGLIGIBLE"]>>

ThrownValues ==
  { Thrown("Error", "fetch failed"), Thrown("string", "quota exceeded"), Thrown("other", "") }

ProviderBehaviours ==
  { ProviderThrows(e) : e \in ThrownValues }
  \cup { ProviderResult(FALSE, "", NULL, NoRatings) }
  \cup { ProviderResult(TRUE, "", f, s) :
           f \in {NULL, "SAFETY", "MAX_TOKENS"}, s \in {NoRatings, Ratings(SomeRatings)} }
  \cup { ProviderResult(TRUE, "**Recipe**", f, s) :
           f \in {"STOP"}, s \in {NoRatings, Ratings(SomeRatings)} }

\* ------------------------------------------------------- the page component
VARIABLES
  ingredients,     \* useState: the catalog
  newItemName,     \* useState: text of the new-item field
  searchTerm,      \* useState: text of the search field
  basket,          \* useState: the basket
  recipeHistory,   \* useState: the history, most recent first
  isGenerating,    \* useState: the busy flag
  error,           \* useState: string | null
  pending,         \* calls of handleGenerateRecipe suspended at await fetch(...)
  now,             \* Date.now()
  API_KEY,         \* process.env.GEMINI_API_KEY || ""
  sent,            \* number of requests sent so far
  successes,       \* number of generations completed with success so far
  last             \* the generate step or route call that ran last, if it was the
                   \* last thing to happen: what it was given and what it got

vars == << ingredients, newItemName, searchTerm, basket, recipeHistory, isGenerating,
           error, pending, now, API_KEY, sent, successes, last >>

pageVars == << ingredients, newItemName, searchTerm, basket, recipeHistory, isGenerating,
               error, pending, sent, successes >>

NoRequest == Body("none", Undefined)
NoResponse == Response(0, NULL, NULL, FALSE, FALSE, FALSE)

NoProvider ==
  [kind |-> "none", thrown |-> NoThrow, hasResponse |-> FALSE, text |-> "",
   finishReason |-> NULL, safetyRatings |-> NoRatings]

\* op: what ran; touched: a basket action ran while the request was in flight;
\* body: the request body; provider: what the provider did with the route's
\* call; response: the route's response; message: the message of the exception
\* caught by the page
Ran(op, touched, body, provider, response, message) ==
  [op |-> op, touched |-> touched, body |-> body, provider |-> provider,
   response |-> response, message |-> message]

Other == Ran("other", FALSE, NoRequest, NoProvider, NoResponse, NULL)

GenerateRejectedMsg == "Your basket is empty. Add some ingredients first!"
EnterNameMsg == "Please enter an ingredient name."

Init ==
  /\ ingredients = INITIAL_INGREDIENTS
  /\ newItemName = <<>>
  /\ searchTerm = <<>>
  /\ basket = <<>>
  /\ recipeHistory = INITIAL_RECIPE_HISTORY
  /\ isGenerating = FALSE
  /\ error = NULL
  /\ pending = <<>>
  /\ now = StartTime
  /\ API_KEY \in {"", "key"}
  /\ sent = 0
  /\ successes = 0
  /\ last = Other

\* String.prototype.toLowerCase, letter by letter
UpperCase == <<"A","B","C","D","E","F","G","H","I","J","K","L","M",
               "N","O","P","Q","R","S","T","U","V","W","X","Y","Z">>
LowerCase == <<"a","b","c","d","e","f","g","h","i","j","k","l","m",
               "n","o","p","q","r","s","t","u","v","w","x","y","z">>

Letters == {UpperCase[i] : i \in 1..Len(UpperCase)}

LowerOf == [c \in Letters |-> LowerCase[CHOOSE i \in 1..Len(UpperCase) : UpperCase[i] = c]]

toLowerCaseChar(c) == IF c \in Letters THEN LowerOf[c] ELSE c

toLowerCase(s) == [i \in 1..Len(s) |-> toLowerCaseChar(s[i])]

\* String.prototype.includes
includes(s, t) ==
  \E i \in 0..(Len(s) - Len(t)) : SubSeq(s, i + 1, i + Len(t)) = t

\* the filter comparing the name and the term as they are
Matches_caseSensitive(ingredient, term) == includes(ingredient.name, term)

Matches(ingredient, term) == includes(toLowerCase(ingredient.name), toLowerCase(term))

filteredIngredients == SelectSeq(ingredients, LAMBDA ing : Matches(ing, searchTerm))

\* a basket action while requests are suspended: remembered on each of them
Touch(ps) == [i \in 1..Len(ps) |-> [ps[i] EXCEPT !.touched = TRUE]]

\* onChange of the new-item field: the texts the user types
NameInputs == { <<>>, <<" ">>, <<" ", "a", " ">> }

\* the positions of the ingredient grid the user clicks
GridPicks == {1}

setNewItemName(v) ==
  /\ v # newItemName
  /\ newItemName' = v
  /\ last' = Other
  /\ UNCHANGED << ingredients, searchTerm, basket, recipeHistory, isGenerating, error,
                  pending, now, API_KEY, sent, successes >>

\* handleAddItem naming the new ingredient by the text as it was typed
AddItem_keepsSpaces(maxAdds, ran) ==
  /\ IF trim(newItemName) = <<>>
     THEN /\ error' = EnterNameMsg
          /\ UNCHANGED << ingredients, newItemName >>
     ELSE /\ Len(ingredients) < Len(INITIAL_INGREDIENTS) + maxAdds
          /\ error' = NULL
          /\ ingredients' = << Ingredient(now, newItemName) >> \o ingredients
          /\ newItemName' = <<>>
  /\ last' = ran
  /\ UNCHANGED << searchTerm, basket, recipeHistory, isGenerating, pending, now, API_KEY,
                  sent, successes >>

\* handleAddItem, adding at most maxAdds ingredients to the initial ones and
\* leaving the record ran of its call
AddItem(maxAdds, ran) ==
  /\ IF trim(newItemName) = <<>>
     THEN /\ error' = EnterNameMsg
          /\ UNCHANGED << ingredients, newItemName >>
     ELSE /\ Len(ingredients) < Len(INITIAL_INGREDIENTS) + maxAdds
          /\ error' = NULL
          /\ ingredients' = << Ingredient(now, trim(newItemName)) >> \o ingredients
          /\ newItemName' = <<>>
  /\ last' = ran
  /\ UNCHANGED << searchTerm, basket, recipeHistory, isGenerating, pending, now, API_KEY,
                  sent, successes >>

handleAddItem == AddItem(MaxAdds, Other)

\* Clear All clearing the history with the basket
handleClearBasket_clearsHistory ==
  /\ Len(basket) > 0
  /\ basket' = <<>>
  /\ recipeHistory' = <<>>
  /\ error' = NULL
  /\ pending' = Touch(pending)
  /\ last' = Other
  /\ UNCHANGED << ingredients, newItemName, searchTerm, isGenerating, now,
                  API_KEY, sent, successes >>

\* the Clear All button is rendered only when basket.length > 0
handleClearBasket ==
  /\ Len(basket) > 0
  /\ basket' = <<>>
  /\ error' = NULL
  /\ pending' = Touch(pending)
  /\ last' = Other
  /\ UNCHANGED << ingredients, newItemName, searchTerm, recipeHistory, isGenerating, now,
                  API_KEY, sent, successes >>

\* the grid button pushing onto the basket array in place, the array the
\* suspended calls of handleGenerateRecipe hold
handleAddToBasket_pushesInPlace(itemToAdd) ==
  /\ Len(basket) < MaxBasket
  /\ error' = NULL
  /\ basket' = Append(basket, itemToAdd)
  /\ pending' = [ i \in 1..Len(pending) |->
                    [ basket |-> Append(pending[i].basket, itemToAdd), touched |-> TRUE ] ]
  /\ last' = Other
  /\ UNCHANGED << ingredients, newItemName, searchTerm, recipeHistory, isGenerating, now,
                  API_KEY, sent, successes >>

\* a button of the ingredient grid
handleAddToBasket(itemToAdd) ==
  /\ Len(basket) < MaxBasket
  /\ error' = NULL
  /\ basket' = Append(basket, itemToAdd)
  /\ pending' = Touch(pending)
  /\ last' = Other
  /\ UNCHANGED << ingredients, newItemName, searchTerm, recipeHistory, isGenerating, now,
                  API_KEY, sent, successes >>

\* prevBasket.findIndex(item => item.id === idToRemove), 0 when there is none
findIndex(b, id) ==
  IF \E i \in 1..Len(b) : b[i].id = id
  THEN CHOOSE i \in 1..Len(b) : b[i].id = id /\ \A j \in 1..(i - 1) : b[j].id # id
  ELSE 0

\* an updater dropping every entry of the id, as a filter would
removeUpdater_filters(prevBasket, idToRemove) ==
  SelectSeq(prevBasket, LAMBDA item : item.id # idToRemove)

\* the updater handleRemoveFromBasket gives to setBasket
removeUpdater(prevBasket, idToRemove) ==
  LET indexToRemove == findIndex(prevBasket, idToRemove)
  IN  IF indexToRemove # 0
      THEN SubSeq(prevBasket, 1, indexToRemove - 1)
             \o SubSeq(prevBasket, indexToRemove + 1, Len(prevBasket))
      ELSE prevBasket

\* handleRemoveFromBasket, leaving the record ran of its call
RemoveFromBasket(idToRemove, ran) ==
  /\ basket' = removeUpdater(basket, idToRemove)
  /\ pending' = Touch(pending)
  /\ last' = ran
  /\ UNCHANGED << ingredients, newItemName, searchTerm, recipeHistory, isGenerating, error,
                  now, API_KEY, sent, successes >>

\* the remove button of a basket entry
handleRemoveFromBasket(idToRemove) == RemoveFromBasket(idToRemove, Other)

\* handleGenerateRecipe without its check of the basket
handleGenerateRecipe_noCheck ==
  /\ sent < MaxRequests
  /\ error' = NULL
  /\ isGenerating' = TRUE
  /\ pending' = Append(pending, [basket |-> basket, touched |-> FALSE])
  /\ sent' = sent + 1
  /\ last' = Ran("generate sent", FALSE, RequestBody(basket), NoProvider, NoResponse, NULL)
  /\ UNCHANGED << ingredients, newItemName, searchTerm, basket, recipeHistory, now, API_KEY,
                  successes >>

\* handleGenerateRecipe up to its await: the suspended call keeps the basket
\* of the render it was created in
handleGenerateRecipe ==
  /\ IF Len(basket) = 0
     THEN /\ error' = GenerateRejectedMsg
          /\ last' = Ran("generate rejected", FALSE, NoRequest, NoProvider, NoResponse, NULL)
          /\ UNCHANGED << isGenerating, pending, sent >>
     ELSE /\ sent < MaxRequests
          /\ error' = NULL
          /\ isGenerating' = TRUE
          /\ pending' = Append(pending, [basket |-> basket, touched |-> FALSE])
          /\ sent' = sent + 1
          /\ last' = Ran("generate sent", FALSE, RequestBody(basket), NoProvider, NoResponse, NULL)
  /\ UNCHANGED << ingredients, newItemName, searchTerm, basket, recipeHistory, now, API_KEY,
                  successes >>

\* the button disabled by the empty basket alone
GenerateDisabled_ignoresBusy == Len(basket) = 0

\* disabled={isGenerating || basket.length === 0}
GenerateDisabled == isGenerating \/ Len(basket) = 0

\* the Generate Recipe button
ClickGenerate == ~GenerateDisabled /\ handleGenerateRecipe

Without(ps, i) == SubSeq(ps, 1, i - 1) \o SubSeq(ps, i + 1, Len(ps))

\* error.message || '...'
CaughtMessage(message) ==
  IF message # "" THEN message
  ELSE "An unexpected error occurred while generating the recipe."

\* the catch block without the finally block
GenerateCatch_staysBusy(i, provider, response, message) ==
  /\ error' = CaughtMessage(message)
  /\ pending' = Without(pending, i)
  /\ last' = Ran("generate failed", pending[i].touched, RequestBody(pending[i].basket),
                 provider, response, message)
  /\ UNCHANGED << ingredients, newItemName, searchTerm, basket, recipeHistory, isGenerating,
                  now, API_KEY, sent, successes >>

\* the catch block clearing the basket as the success path does
GenerateCatch_clearsBasket(i, provider, response, message) ==
  /\ error' = CaughtMessage(message)
  /\ isGenerating' = FALSE
  /\ basket' = <<>>
  /\ pending' = Without(pending, i)
  /\ last' = Ran("generate failed", pending[i].touched, RequestBody(pending[i].basket),
                 provider, response, message)
  /\ UNCHANGED << ingredients, newItemName, searchTerm, recipeHistory, now, API_KEY,
                  sent, successes >>

\* a recipe recorded before response.ok is looked at
GenerateCatch_recordsRecipe(i, provider, response, message) ==
  /\ error' = CaughtMessage(message)
  /\ isGenerating' = FALSE
  /\ recipeHistory' = << [ id |-> <<"recipe_", now>>,
                           ingredientsUsed |-> pending[i].basket,
                           recipeText |-> NULL,
                           generatedAt |-> now ] >> \o recipeHistory
  /\ pending' = Without(pending, i)
  /\ last' = Ran("generate failed", pending[i].touched, RequestBody(pending[i].basket),
                 provider, response, message)
  /\ UNCHANGED << ingredients, newItemName, searchTerm, basket, now, API_KEY,
                  sent, successes >>

\* the catch and finally blocks of handleGenerateRecipe
GenerateCatch(i, provider, response, message) ==
  /\ error' = CaughtMessage(message)
  /\ isGenerating' = FALSE
  /\ pending' = Without(pending, i)
  /\ last' = Ran("generate failed", pending[i].touched, RequestBody(pending[i].basket),
                 provider, response, message)
  /\ UNCHANGED << ingredients, newItemName, searchTerm, basket, recipeHistory, now, API_KEY,
                  sent, successes >>

\* the success path without setBasket([])
GenerateSuccess_keepsBasket(i, provider, data) ==
  /\ LET newRecipe == [ id |-> <<"recipe_", now>>,
                        ingredientsUsed |-> pending[i].basket,
                        recipeText |-> data.recipeText,
                        generatedAt |-> now ]
     IN  recipeHistory' = <<newRecipe>> \o recipeHistory
  /\ isGenerating' = FALSE
  /\ pending' = Without(pending, i)
  /\ successes' = successes + 1
  /\ last' = Ran("generate succeeded", pending[i].touched, RequestBody(pending[i].basket),
                 provider, data, NULL)
  /\ UNCHANGED << ingredients, newItemName, searchTerm, basket, error, now, API_KEY, sent >>

\* the success path reading the basket of the latest render, not of its own
GenerateSuccess_readsLiveBasket(i, provider, data) ==
  /\ LET newRecipe == [ id |-> <<"recipe_", now>>,
                        ingredientsUsed |-> basket,
                        recipeText |-> data.recipeText,
                        generatedAt |-> now ]
     IN  recipeHistory' = <<newRecipe>> \o recipeHistory
  /\ basket' = <<>>
  /\ isGenerating' = FALSE
  /\ pending' = Without(pending, i)
  /\ successes' = successes + 1
  /\ last' = Ran("generate succeeded", pending[i].touched, RequestBody(pending[i].basket),
                 provider, data, NULL)
  /\ UNCHANGED << ingredients, newItemName, searchTerm, error, now, API_KEY, sent >>

\* the success path with a setError(null) of its own
GenerateSuccess_clearsError(i, provider, data) ==
  /\ LET newRecipe == [ id |-> <<"recipe_", now>>,
                        ingredientsUsed |-> pending[i].basket,
                        recipeText |-> data.recipeText,
                        generatedAt |-> now ]
     IN  recipeHistory' = <<newRecipe>> \o recipeHistory
  /\ basket' = <<>>
  /\ isGenerating' = FALSE
  /\ error' = NULL
  /\ pending' = Without(pending, i)
  /\ successes' = successes + 1
  /\ last' = Ran("generate succeeded", pending[i].touched, RequestBody(pending[i].basket),
                 provider, data, NULL)
  /\ UNCHANGED << ingredients, newItemName, searchTerm, now, API_KEY, sent >>

\* the success path putting the new recipe behind the earlier ones
GenerateSuccess_appendsLast(i, provider, data) ==
  /\ LET newRecipe == [ id |-> <<"recipe_", now>>,
                        ingredientsUsed |-> pending[i].basket,
                        recipeText |-> data.recipeText,
                        generatedAt |-> now ]
     IN  recipeHistory' = recipeHistory \o <<newRecipe>>
  /\ basket' = <<>>
  /\ isGenerating' = FALSE
  /\ pending' = Without(pending, i)
  /\ successes' = successes + 1
  /\ last' = Ran("generate succeeded", pending[i].touched, RequestBody(pending[i].basket),
                 provider, data, NULL)
  /\ UNCHANGED << ingredients, newItemName, searchTerm, error, now, API_KEY, sent >>

\* handleGenerateRecipe after a response that is ok, and its finally block
GenerateSuccess(i, provider, data) ==
  /\ LET newRecipe == [ id |-> <<"recipe_", now>>,
                        ingredientsUsed |-> pending[i].basket,
                        recipeText |-> data.recipeText,
                        generatedAt |-> now ]
     IN  recipeHistory' = <<newRecipe>> \o recipeHistory
  /\ basket' = <<>>
  /\ isGenerating' = FALSE
  /\ pending' = Without(pending, i)
  /\ successes' = successes + 1
  /\ last' = Ran("generate succeeded", pending[i].touched, RequestBody(pending[i].basket),
                 provider, data, NULL)
  /\ UNCHANGED << ingredients, newItemName, searchTerm, error, now, API_KEY, sent >>

\* response.ok
ResponseOk(response) == response.status >= 200 /\ response.status <= 299

\* data.error || `HTTP error! status: ${response.status}`
HttpErrorMessage(data) ==
  IF data.error # NULL /\ data.error # "" THEN data.error
  ELSE "HTTP error! status: " \o ToString(data.status)

\* fetch resolves with the route's response: the rest of handleGenerateRecipe
ResponseArrives(i) ==
  \E provider \in ProviderBehaviours :
    LET data == POST(API_KEY, RequestBody(pending[i].basket), provider)
    IN  IF ResponseOk(data)
        THEN GenerateSuccess(i, provider, data)
        ELSE GenerateCatch(i, provider, data, HttpErrorMessage(data))

\* fetch rejects, or response.json() throws on a body that is not JSON
FailedToFetch == Thrown("Error", "Failed to fetch")

FetchThrows(i) ==
  \E e \in {FailedToFetch, SyntaxError} : GenerateCatch(i, NoProvider, NoResponse, e.message)

Next ==
  \/ \E v \in NameInputs : setNewItemName(v)
  \/ handleAddItem
  \/ handleClearBasket
  \/ LET grid == filteredIngredients
     IN  \E k \in GridPicks : k <= Len(grid) /\ handleAddToBasket(grid[k])
  \/ \E k \in 1..Len(basket) : handleRemoveFromBasket(basket[k].id)
  \/ ClickGenerate
  \/ \E i \in 1..Len(pending) : ResponseArrives(i)
  \/ \E i \in 1..Len(pending) : FetchThrows(i)

\* The page with the clock standing still. The times the page records (the ids
\* of added ingredients and of recipes, generatedAt) are never read back by a
\* handler, so they decide nothing about basket, history, error or busy flag.
Spec == Init /\ [][Next]_vars

\* a millisecond passes
Tick ==
  /\ now < StartTime + MaxTicks
  /\ now' = now + 1
  /\ last' = Other
  /\ UNCHANGED << pageVars, API_KEY >>

\* the page with the clock running
SpecClock == Init /\ [][Next \/ Tick]_vars

\* handleGenerateRecipe called directly while no generation is running, not
\* through the button: the one way to call it with an empty basket
CallGenerate == ~isGenerating /\ handleGenerateRecipe

SpecHandler == Init /\ [][Next \/ CallGenerate]_vars

\* the request settles: no timeout is enforced, the transport's is relied on
Settles == \E i \in 1..Len(pending) : ResponseArrives(i) \/ FetchThrows(i)

SpecLive == Spec /\ WF_vars(Settles)

\* ------------------------------------------------ the catalog on its own
\* onChange of the search field
setSearchTerm(v) ==
  /\ v # searchTerm
  /\ searchTerm' = v
  /\ last' = Other
  /\ UNCHANGED << ingredients, newItemName, basket, recipeHistory, isGenerating, error,
                  pending, now, API_KEY, sent, successes >>

\* the texts typed into the search field
SearchInputs == { <<>>, <<"C","H","I","C","K">>, <<"o">>, <<"c","e"," ">> }

\* the texts typed into the new-item field
CatalogNameInputs == NameInputs \cup { <<"I","c","e"," ","C","u","b","e">> }

\* a call of handleAddItem
Added == Ran("handleAddItem", FALSE, NoRequest, NoProvider, NoResponse, NULL)

NextCatalog ==
  \/ \E v \in CatalogNameInputs : setNewItemName(v)
  \/ AddItem(MaxCatalogAdds, Added)
  \/ \E v \in SearchInputs : setSearchTerm(v)
  \/ Tick

\* the catalog handlers and the search field, with the clock running: two
\* ingredients may be added within a millisecond or in different ones
SpecCatalog == Init /\ [][NextCatalog]_vars

\* ------------------------------------------------ the basket on its own
\* the grid positions clicked, and the ids handleRemoveFromBasket is called
\* with: those of the first grid entries, in the basket or not
BasketGridPicks == {1, 2, 3}
RemoveIds == { ingredients[k].id : k \in 1..4 }

\* a call of handleRemoveFromBasket: its argument and the basket it found
Removed(idToRemove, prevBasket) ==
  [ op |-> "handleRemoveFromBasket", idToRemove |-> idToRemove, prevBasket |-> prevBasket ]

NextBasket ==
  \/ \E k \in BasketGridPicks : handleAddToBasket(ingredients[k])
  \/ handleClearBasket
  \/ \E id \in RemoveIds : RemoveFromBasket(id, Removed(id, basket))

\* the basket handlers called with any argument: handleRemoveFromBasket also
\* with an id no entry of the basket has
SpecBasket == Init /\ [][NextBasket]_vars

\* ------------------------------------------------ the route on its own
\* any client may post any body to the route
ItemValues ==
  { Item("object", TRUE, <<"R","i","c","e">>), Item("object", TRUE, <<"E","g","g","s">>),
    Item("object", FALSE, <<>>), Item("null", FALSE, <<>>) }

Bodies ==
  { Body("unparsable", Undefined), Body("null", Undefined), Body("scalar", Undefined) }
  \cup { Body("object", Value(t, <<>>)) : t \in {"undefined", "null", "falsy", "string", "array"} }
  \cup { Body("object", Value("array", items)) : items \in SeqsUpTo(ItemValues, MaxItems) }

TwoRatings ==
  SomeRatings \o <<[category |-> "HARM_CATEGORY_HATE_SPEECH", probability |-> "LOW"]>>

\* what the provider may do with a call of the route: every combination of
\* text, finish reason and safety ratings of a response
RouteProviderBehaviours ==
  ProviderBehaviours
  \cup { ProviderResult(TRUE, t, f, s) :
           t \in {"", "**Recipe**"},
           f \in {NULL, "SAFETY", "MAX_TOKENS", "STOP"},
           s \in {NoRatings, Ratings(<<>>), Ratings(SomeRatings), Ratings(TwoRatings)} }

\* one request in a behaviour: the route keeps nothing from one request to
\* the next, API_KEY being read once when the module is loaded
RouteRequest ==
  /\ last.op # "POST"
  /\ \E body \in Bodies, provider \in RouteProviderBehaviours :
       last' = Ran("POST", FALSE, body, provider, POST(API_KEY, body, provider), NULL)
  /\ UNCHANGED << pageVars, now, API_KEY >>

SpecRoute == Init /\ [][RouteRequest]_vars

\* ------------------------------------------------------------ properties
Succeeded == last.op = "generate succeeded"
Failed == last.op = "generate failed"

\* a step that is the completion of a generation
SuccessStep == successes' = successes + 1
FailureStep == last'.op = "generate failed"

\* C1: whenever a generation completes with a success response, the basket is
\* empty in the state right after the completion, whatever basket actions ran
\* while the request was in flight.
C1_BasketEmptyAfterSuccess == Succeeded => basket = <<>>

\* a success whose request saw a basket action while in flight
C1_Witness == Succeeded /\ last.touched /\ basket = <<>>

\* C2: a completion with any failure (a response that is not ok, or a thrown
\* fetch/JSON exception) leaves the basket and the history exactly as they were.
C2_FailureKeepsBasketAndHistory ==
  [][FailureStep => basket' = basket /\ recipeHistory' = recipeHistory]_vars

\* a failure with a 500 response after which a basket is there to retry with
C2_Witness ==
  /\ Failed
  /\ last.response.status = 500
  /\ Len(basket) = 2
  /\ Len(recipeHistory) = 2

\* C3 as stated: the number of history entries equals the number of successful
\* generations completed so far.
C3_HistoryCountsSuccesses == Len(recipeHistory) = successes

\* C3 as amended: the history is the entries of the successful generations, one
\* each and each with the text of a response, in front of the example entry the
\* page starts with.
C3_HistoryIsSuccessesThenSeed ==
  /\ Len(recipeHistory) = successes + Len(INITIAL_RECIPE_HISTORY)
  /\ SubSeq(recipeHistory, successes + 1, Len(recipeHistory)) = INITIAL_RECIPE_HISTORY
  /\ \A k \in 1..successes :
       /\ recipeHistory[k].id[1] = "recipe_"
       /\ recipeHistory[k].recipeText \notin {NULL, ""}

\* a generation has succeeded and a later one has failed
C3_Witness == successes = 1 /\ Failed /\ Len(recipeHistory) = 2

\* C4: at most one generation request is in flight at any time: while one is,
\* the busy flag is set and the generate button takes no further invocation.
C4_SingleInFlight ==
  /\ Len(pending) <= 1
  /\ pending # <<>> => isGenerating /\ ~ENABLED ClickGenerate

\* a request is in flight while the basket is not empty and a further request
\* is within the bound: the busy flag alone holds the button back
C4_Witness == Len(pending) = 1 /\ Len(basket) > 0 /\ sent < MaxRequests

\* a step between the sending of a request and its completion
InFlightStep == pending # <<>> /\ Len(pending') = Len(pending)

\* C5 as stated: while a generation is in flight no action modifies the basket
\* or the history.
C5_NothingChangesInFlight ==
  [][InFlightStep => basket' = basket /\ recipeHistory' = recipeHistory]_vars

\* C5 as amended: while a generation is in flight no action modifies the
\* history; the basket is still changed by add, remove and clear.
C5_HistoryFixedInFlight ==
  [][InFlightStep => recipeHistory' = recipeHistory]_vars

\* a request in flight whose basket was changed since it was sent
C5_Witness ==
  /\ Len(pending) = 1
  /\ pending[1].touched
  /\ basket # pending[1].basket
  /\ recipeHistory = INITIAL_RECIPE_HISTORY

\* C6: generate invoked with an empty basket is rejected with the basket-empty
\* error; it does not enter Generating, sends no request and leaves basket and
\* history alone; a request is only ever sent for a basket that is not empty.
C6_EmptyBasketRejected ==
  [][ /\ last'.op = "generate rejected" =>
           /\ Len(basket) = 0
           /\ error' = GenerateRejectedMsg
           /\ isGenerating' = isGenerating
           /\ pending' = pending
           /\ sent' = sent
           /\ basket' = basket
           /\ recipeHistory' = recipeHistory
      /\ sent' # sent =>
           /\ Len(basket) > 0
           /\ \A k \in 1..Len(pending') : Len(pending'[k].basket) > 0 ]_vars

\* generate was rejected while nothing was in flight
C6_Witness ==
  /\ last.op = "generate rejected"
  /\ error = GenerateRejectedMsg
  /\ ~isGenerating
  /\ pending = <<>>
  /\ sent = 0

\* C7 as stated: the recipe added on success has ingredientsUsed equal to the
\* current basket, the one that same step clears.
C7_RecipeOfCurrentBasket ==
  [][SuccessStep => Head(recipeHistory').ingredientsUsed = basket]_vars

\* C7 as amended: the recipe added on success has ingredientsUsed equal, in the
\* same order, to the basket as it was when generate was invoked; that is the
\* current basket when no basket action ran while the request was in flight.
C7_RecipeOfInvocationBasket ==
  [][SuccessStep =>
       \E i \in 1..Len(pending) :
         /\ pending' = Without(pending, i)
         /\ Head(recipeHistory').ingredientsUsed = pending[i].basket
         /\ ~pending[i].touched => pending[i].basket = basket]_vars

\* a recipe of two different ingredients recorded after the basket had changed
C7_Witness ==
  /\ Succeeded
  /\ last.touched
  /\ Len(Head(recipeHistory).ingredientsUsed) = 2
  /\ Head(recipeHistory).ingredientsUsed[1] # Head(recipeHistory).ingredientsUsed[2]

\* C8 as stated: after a completion with success the error state is null.
C8_NoErrorAfterSuccess == Succeeded => error = NULL

\* C8 as amended: a completion with success leaves the error state as it was:
\* null, or the message of a blank-name catalog add rejected while the request
\* was in flight.
C8_SuccessLeavesError ==
  /\ [](Succeeded => error \in {NULL, EnterNameMsg})
  /\ [][SuccessStep => error' = error]_vars

\* a success right after which the message of a rejected catalog add is shown
C8_Witness == Succeeded /\ error = EnterNameMsg

\* the message a failed generation carries: of the response, or of the exception
FailureMessage ==
  IF last.response = NoResponse THEN last.message ELSE last.response.error

\* C9: a generation that entered Generating leaves it when its request settles,
\* on every outcome: the busy flag is cleared, generate is invocable again, and
\* after a failure the message of the response or of the exception is displayed.
C9_LeavesGenerating ==
  /\ [](Succeeded \/ Failed =>
          /\ ~isGenerating
          /\ Len(basket) > 0 /\ sent < MaxRequests => ENABLED ClickGenerate)
  /\ [](Failed => error = FailureMessage /\ error \notin {NULL, ""})
  /\ (isGenerating ~> ~isGenerating)

\* a failure after which the button can be used again
C9_Witness ==
  /\ Failed
  /\ last.response.status = 500
  /\ error = last.response.error
  /\ ~isGenerating
  /\ ENABLED ClickGenerate

\* C10: with no credential configured POST answers every request with status 500
\* and "API key not configured", whatever the body, without reading the body,
\* building a prompt or calling the provider.
C10_NoKeyAlways500 ==
  last.op = "POST" /\ API_KEY = "" =>
    last.response = Response(500, "API key not configured", NULL, FALSE, FALSE, FALSE)

\* a body that does not parse, posted with no credential configured
C10_Witness ==
  /\ last.op = "POST"
  /\ API_KEY = ""
  /\ last.body.kind = "unparsable"
  /\ last.response.status = 500

\* C15: the history is append-only and most-recent-first: every step leaves the
\* previous history as a suffix of the current one, and a successful generation
\* puts exactly one new Recipe, the one of the response, in front of it.
C15_HistoryGrowsAtFront ==
  [][ /\ Len(recipeHistory') >= Len(recipeHistory)
      /\ \A k \in 1..Len(recipeHistory) :
           recipeHistory'[Len(recipeHistory') - Len(recipeHistory) + k] = recipeHistory[k]
      /\ SuccessStep =>
           /\ Len(recipeHistory') = Len(recipeHistory) + 1
           /\ recipeHistory'[1].recipeText = last'.response.recipeText
      /\ ~SuccessStep => Len(recipeHistory') = Len(recipeHistory) ]_vars

\* two generations of different baskets succeeded: the later one is first,
\* the example entry last
C15_Witness ==
  /\ successes = 2
  /\ Len(recipeHistory) = 3
  /\ recipeHistory[1].ingredientsUsed # recipeHistory[2].ingredientsUsed
  /\ recipeHistory[3] = INITIAL_RECIPE_HISTORY[1]
  /\ Succeeded
  /\ RequestBody(recipeHistory[1].ingredientsUsed) = last.body

\* a step that sends a request
SendStep == sent' = sent + 1

\* C21: the Recipe a successful generation records has ingredientsUsed equal to
\* the ingredient sequence sent in that generation's request, the basket as it
\* was when generate was invoked, whatever basket actions ran while the request
\* was in flight; and later basket changes never alter a recorded Recipe.
\* Step by step: the request sent names the basket of the invocation, which the
\* suspended call holds; no step alters what a suspended call holds; the success
\* records what the finished call held, the sequence its request carried; and
\* no step alters the ingredientsUsed of a Recipe there is.
C21_RecipeOfSentRequest ==
  [][ /\ SendStep =>
           /\ pending' = Append(pending, pending'[Len(pending')])
           /\ pending'[Len(pending')].basket = basket
           /\ last'.body = RequestBody(basket)
      /\ ~SendStep /\ ~SuccessStep /\ ~FailureStep =>
           /\ Len(pending') = Len(pending)
           /\ \A i \in 1..Len(pending) : pending'[i].basket = pending[i].basket
      /\ SuccessStep =>
           \E i \in 1..Len(pending) :
             /\ pending' = Without(pending, i)
             /\ recipeHistory'[1].ingredientsUsed = pending[i].basket
             /\ RequestBody(recipeHistory'[1].ingredientsUsed) = last'.body
      /\ \A k \in 1..Len(recipeHistory) :
           recipeHistory'[Len(recipeHistory') - Len(recipeHistory) + k].ingredientsUsed
             = recipeHistory[k].ingredientsUsed ]_vars

\* a Recipe of one ingredient, recorded for a request during which the basket
\* changed, in a history that has an earlier generated Recipe
C21_Witness ==
  /\ Succeeded
  /\ last.touched
  /\ successes = 2
  /\ Len(recipeHistory[1].ingredientsUsed) = 1
  /\ RequestBody(recipeHistory[1].ingredientsUsed) = last.body
  /\ Len(recipeHistory[2].ingredientsUsed) > 0

\* C22: in every reachable state every Recipe of the history has an
\* ingredientsUsed that is not empty, also when the basket was cleared, or
\* emptied by removals, while the generation that produced it was in flight.
C22_RecipesNameIngredients ==
  \A k \in 1..Len(recipeHistory) : Len(recipeHistory[k].ingredientsUsed) > 0

\* a generation has just succeeded for a request during which the basket was
\* changed: its Recipe names the two ingredients sent, the example entry its own
C22_Witness ==
  /\ Succeeded
  /\ last.touched
  /\ successes = 1
  /\ basket = <<>>
  /\ Len(recipeHistory) = 2
  /\ Len(recipeHistory[1].ingredientsUsed) = 2
  /\ recipeHistory[2] = INITIAL_RECIPE_HISTORY[1]

\* ------------------------------------------------ properties of the catalog
\* C17: in every reachable state the ids of the catalog's ingredients are
\* pairwise distinct, also after several adds in succession.
C17_CatalogIdsDistinct ==
  \A i, j \in 1..Len(ingredients) : i # j => ingredients[i].id # ingredients[j].id

\* a text is blank when trimmed: it has nothing but whitespace
Blank(s) == \A k \in 1..Len(s) : s[k] = " "

\* a text that is not blank, from its first to its last character that is no
\* whitespace
Trimmed(s) ==
  LET inked == { k \in 1..Len(s) : s[k] # " " }
      first == CHOOSE k \in inked : \A m \in inked : k <= m
      final == CHOOSE k \in inked : \A m \in inked : m <= k
  IN  [ k \in 1..(final - first + 1) |-> s[first + k - 1] ]

\* a step that is a call of handleAddItem
AddStep == last'.op = "handleAddItem"

\* C18: an add whose name is blank after trimming fails with the validation
\* error and leaves the catalog unchanged; any other add puts exactly one new
\* ingredient, named by the trimmed name, in front of the catalog and leaves the
\* ingredients there were in their order.
C18_AddPrependsTrimmed ==
  [][ AddStep =>
        IF Blank(newItemName)
        THEN error' = EnterNameMsg /\ ingredients' = ingredients
        ELSE /\ Len(ingredients') = Len(ingredients) + 1
             /\ ingredients'[1].name = Trimmed(newItemName)
             /\ \A k \in 1..Len(ingredients) : ingredients'[k + 1] = ingredients[k]
             /\ error' # EnterNameMsg ]_vars

\* the text " a " was added: the catalog starts with an ingredient named "a"
C18_Witness ==
  /\ last.op = "handleAddItem"
  /\ Len(ingredients) = Len(INITIAL_INGREDIENTS) + 1
  /\ ingredients[1].name = <<"a">>
  /\ newItemName = <<>>
  /\ error = NULL

\* two characters are the same letter, in whatever case
SameIgnoringCase(c, d) ==
  \/ c = d
  \/ \E k \in 1..Len(UpperCase) : {c, d} = {UpperCase[k], LowerCase[k]}

\* the name contains the term as a substring, ignoring case
ContainsIgnoringCase(name, term) ==
  \E off \in 0..(Len(name) - Len(term)) :
    \A k \in 1..Len(term) : SameIgnoringCase(name[off + k], term[k])

\* the positions of the catalog whose names contain the search term
MatchingPositions ==
  { k \in 1..Len(ingredients) : ContainsIgnoringCase(ingredients[k].name, searchTerm) }

\* the j-th of these positions, counted from the front of the catalog
NthMatch(j) ==
  CHOOSE k \in MatchingPositions : Cardinality({ m \in MatchingPositions : m <= k }) = j

\* C20: the search returns exactly the ingredients whose name contains the term
\* as a substring, ignoring case, in the order of the catalog; with an empty
\* term it returns the whole catalog; and searching changes nothing but the
\* term.
C20_SearchFilters ==
  /\ [](/\ Len(filteredIngredients) = Cardinality(MatchingPositions)
        /\ \A j \in 1..Len(filteredIngredients) :
             filteredIngredients[j] = ingredients[NthMatch(j)]
        /\ searchTerm = <<>> => filteredIngredients = ingredients)
  /\ [][searchTerm' # searchTerm =>
         UNCHANGED << ingredients, newItemName, basket, recipeHistory, isGenerating,
                      error, pending >>]_vars

\* the term "o" finds Tomatoes, Onions and Olive Oil in the initial catalog
C20_Witness ==
  /\ searchTerm = <<"o">>
  /\ ingredients = INITIAL_INGREDIENTS
  /\ Len(filteredIngredients) = 3
  /\ filteredIngredients[2].name = <<"O","n","i","o","n","s">>
  /\ filteredIngredients[3].name = <<"O","l","i","v","e"," ","O","i","l">>

\* ------------------------------------------------ properties of the basket
RemoveRan == last.op = "handleRemoveFromBasket"

Posted == last.op = "POST"
Configured == API_KEY # ""

\* the ingredient input of a body is empty or malformed: the body does not
\* parse, is null or no object, or its ingredients are missing, no array or an
\* empty array
MalformedInput(body) ==
  \/ body.kind \in {"unparsable", "null", "scalar"}
  \/ body.kind = "object" /\ body.ingredients.t # "array"
  \/ body.kind = "object" /\ body.ingredients.t = "array" /\ body.ingredients.items = <<>>

\* C11: with a credential configured, every request whose ingredient input is
\* empty or malformed (ingredients missing, no array, an empty array, or a body
\* that is null or does not parse) is answered with status 400, and no provider
\* call is made.
C11_MalformedInputIs400 ==
  Posted /\ Configured /\ MalformedInput(last.body) =>
    last.response.status = 400 /\ ~last.response.calledProvider

\* the provider was called and returned a result
Interpreted ==
  Posted /\ Configured /\ last.response.calledProvider /\ last.provider.kind = "result"

\* the suffixes the safety ratings of a result may add to a message
RatingSuffixes ==
  {""} \cup { " (Safety Ratings: " \o JSONstringify(l) \o ")" :
                l \in {<<>>, SomeRatings, TwoRatings} }

WithSuffix(message) == { message \o x : x \in RatingSuffixes }

\* C12: the outcome of interpreting a provider result follows the ordered
\* decision procedure: no response object gives the no-response 500; empty text
\* with finish reason SAFETY the safety-settings 500; empty text with another
\* finish reason a 500 naming it; empty text with no finish reason the generic
\* empty-or-blocked 500; otherwise 200 with the text. A 200 is given only for a
\* text that is not empty.
C12_DecisionProcedure ==
  Interpreted =>
    LET p == last.provider
        r == last.response
    IN  /\ ~p.hasResponse =>
             r.status = 500 /\ r.error = "Failed to generate recipe. No response object from AI."
        /\ p.hasResponse /\ p.text = "" /\ p.finishReason = "SAFETY" =>
             /\ r.status = 500
             /\ r.error \in WithSuffix("Failed to generate recipe due to safety settings.")
        /\ p.hasResponse /\ p.text = "" /\ p.finishReason \notin {NULL, "SAFETY"} =>
             /\ r.status = 500
             /\ r.error \in WithSuffix("Failed to generate recipe.  (Finish Reason: "
                                         \o p.finishReason \o ")")
        /\ p.hasResponse /\ p.text = "" /\ p.finishReason = NULL =>
             /\ r.status = 500
             /\ r.error \in WithSuffix("Failed to generate recipe. The AI response was empty or blocked.")
        /\ p.hasResponse /\ p.text # "" =>
             r.status = 200 /\ r.recipeText = p.text /\ r.error = NULL
        /\ r.status = 200 => p.hasResponse /\ p.text # ""

\* an empty text with finish reason SAFETY and safety ratings, answered
C12_Witness ==
  /\ Interpreted
  /\ last.provider.hasResponse
  /\ last.provider.text = ""
  /\ last.provider.finishReason = "SAFETY"
  /\ last.provider.safetyRatings = Ratings(SomeRatings)
  /\ last.response.status = 500

\* C13: safety ratings never change the outcome: the response to a provider
\* result and the response to the same result without its safety ratings have
\* the same status and text, and the same error message but for the suffix the
\* ratings add to the message of an empty or blocked outcome.
C13_RatingsKeepOutcome ==
  Posted =>
    LET p == last.provider
        r == last.response
        bare == POST(API_KEY, last.body, [p EXCEPT !.safetyRatings = NoRatings])
        suffix == " (Safety Ratings: " \o JSONstringify(p.safetyRatings.list) \o ")"
    IN  /\ r.status = bare.status
        /\ r.recipeText = bare.recipeText
        /\ \/ r.error = bare.error
           \/ /\ Interpreted /\ p.hasResponse /\ p.text = "" /\ p.safetyRatings.present
              /\ r.error = bare.error \o suffix

\* an empty text with no finish reason and two safety ratings, answered
C13_Witness ==
  /\ Interpreted
  /\ last.provider.hasResponse
  /\ last.provider.text = ""
  /\ last.provider.finishReason = NULL
  /\ last.provider.safetyRatings = Ratings(TwoRatings)
  /\ last.response.error # "Failed to generate recipe. The AI response was empty or blocked."

\* what is thrown while POST handles a body with a credential configured:
\* by request.json(), by the destructuring, by reading the name of an entry
\* that is null, or by the provider
Raised(body, provider) ==
  IF body.kind = "unparsable" THEN SyntaxError
  ELSE IF body.kind = "null" THEN DestructureNull
  ELSE IF MalformedInput(body) THEN NoThrow
  ELSE IF \E i \in 1..Len(body.ingredients.items) : body.ingredients.items[i].t = "null"
  THEN ReadNameOfNull
  ELSE IF provider.kind = "throws" THEN provider.thrown
  ELSE NoThrow

\* C14: any exception thrown during the provider call or the handling of the
\* request is caught inside POST and surfaced as status 500 with the error
\* "Failed to generate recipe. " followed by the exception's message when it is
\* an Error or a string and by "Unknown error" otherwise; POST always responds.
C14_ExceptionsAre500 ==
  Posted /\ Configured =>
    LET e == Raised(last.body, last.provider)
        r == last.response
    IN  /\ r.status \in {200, 400, 500}
        /\ e.shape \in {"Error", "string"} =>
             r.status = 500 /\ r.error = "Failed to generate recipe. " \o e.message
        /\ e.shape = "other" =>
             r.status = 500 /\ r.error = "Failed to generate recipe. Unknown error"

\* the provider threw what is neither an Error nor a string
C14_Witness ==
  /\ Posted
  /\ Configured
  /\ last.response.calledProvider
  /\ last.provider.kind = "throws"
  /\ last.provider.thrown.shape = "other"
  /\ last.response.error = "Failed to generate recipe. Unknown error"

\* the prompt POST built for the request
PromptBuilt == Posted /\ Configured /\ last.response.builtPrompt
Given == last.body.ingredients.items
BuiltPrompt == prompt(Given)

\* how often a text occurs in another
Occurrences(text, t) ==
  Cardinality({ off \in 0..(Len(text) - Len(t)) : SubSeq(text, off + 1, off + Len(t)) = t })

\* C19 as stated: for every non-empty sequence of ingredient names, those a
\* basket can produce included, the built prompt contains every given name
\* exactly once.
C19_EveryNameOnce ==
  PromptBuilt /\ (\A k \in 1..Len(Given) : Given[k].hasName) =>
    \A k \in 1..Len(Given) : Occurrences(BuiltPrompt, Given[k].name) = 1

\* the given name of an entry, empty when it has none
GivenName(k) == IF Given[k].hasName THEN Given[k].name ELSE <<>>

\* where the k-th name starts in the list: after the names before it and a
\* separator of two characters for each
RECURSIVE Offset(_)
Offset(k) == IF k = 1 THEN 0 ELSE Offset(k - 1) + Len(GivenName(k - 1)) + 2

\* C19 as amended: the built prompt is the fixed text with one list in it
\* that names the given entries, all of them and nothing else, in the order
\* given and each as often as it is given, with ", " between: a name given
\* twice, as in a basket with a duplicate, is listed twice.
C19_NamesListedAsGiven ==
  PromptBuilt =>
    LET n == Len(Given)
        start == Len(PromptHead)
        length == Offset(n) + Len(GivenName(n))
    IN  /\ Len(BuiltPrompt) = start + length + Len(PromptTail)
        /\ SubSeq(BuiltPrompt, 1, start) = PromptHead
        /\ SubSeq(BuiltPrompt, start + length + 1, Len(BuiltPrompt)) = PromptTail
        /\ \A k \in 1..n :
             SubSeq(BuiltPrompt, start + Offset(k) + 1, start + Offset(k) + Len(GivenName(k)))
               = GivenName(k)
        /\ \A k \in 2..n :
             SubSeq(BuiltPrompt, start + Offset(k) - 1, start + Offset(k)) = <<",", " ">>

\* a request naming Rice twice: the prompt names it twice
C19_Witness ==
  /\ PromptBuilt
  /\ Len(Given) = 2
  /\ Given[1] = Given[2]
  /\ Given[1].name = <<"R","i","c","e">>
  /\ Occurrences(BuiltPrompt, <<"R","i","c","e">>) = 2

====
